---- MODULE Spec2Model ----
(***************************************************************************)
(* xdrgen (rust-xdr): the driver of the XDR code generator, lib.rs.        *)
(*                                                                         *)
(*   Spec         one run of generate / generate_pretty, step by step      *)
(*   SpecCompile  two concurrent calls of compile sharing one file system  *)
(*   SpecCodec    example/src/simple.rs: pack, Cursor::new, unpack         *)
(*                                                                         *)
(* Text is a sequence of one-character strings, so that str::contains,     *)
(* format! and the path operations are computed character by character.    *)
(* The module `spec` (parser, Symtab, Emit, Emitpack) and the runtime      *)
(* crate xdr_codec are not part of lib.rs; what the driver needs of them   *)
(* is modelled from the design document and marked as such.                *)
(***************************************************************************)
EXTENDS Integers, Sequences, FiniteSets, TLC

VARIABLES
    \* ---- one run of generate / generate_pretty
    mode,          \* "generate" | "pretty": which entry point is running
    infile,        \* generate's `infile`
    source,        \* the specification text behind `input`
    exclude_defs,  \* generate's `exclude_defs`
    pc,            \* position of the run
    xdr,           \* the symbol table (`let xdr`), NoSymtab before it is built
    res,           \* the fragments collected so far (`res` / `stream`)
    idx,           \* the next item of the chained iterator
    output,        \* the bytes the output stream holds
    written,       \* the fragments handed to writeln!, in order
    broken,        \* the output stream has started to fail
    writeErr,      \* some write returned Err
    ret,           \* the run's return value: "none" | "ok" | "err"
    pretty,        \* generate_pretty's returned file: its items in order
    \* ---- two concurrent calls of compile
    fs,            \* the file system: path -> content
    run,           \* run -> its local state
    \* ---- example/src/simple.rs
    foo, buf, cur, foo2, mpc

genVars == <<mode, infile, source, exclude_defs, pc, xdr, res, idx, output,
             written, broken, writeErr, ret, pretty>>
compVars == <<fs, run>>
codecVars == <<foo, buf, cur, foo2, mpc>>
vars == <<genVars, compVars, codecVars>>

-----------------------------------------------------------------------------
(* Bounds                                                                  *)

\* the longest specification (number of top-level declarations)
MaxDefs == 3
\* the longest variable-length array of Bar in a Foo
MaxBars == 1

-----------------------------------------------------------------------------
(* Text                                                                    *)

Foo == <<"F", "o", "o">>
FooBar == <<"F", "o", "o", "B", "a", "r">>
Sel == <<"S", "e", "l">>
Baz == <<"B", "a", "z">>
Opq == <<"O", "p", "q">>
Bad == <<"B", "a", "d">>
NName == <<"N">>
ONE == <<"O", "N", "E">>
NL == <<"\n">>
SP == <<" ">>

\* str::contains: `pat` occurs in `line` as a contiguous substring
Contains(line, pat) ==
    \E i \in 0..(Len(line) - Len(pat)) : SubSeq(line, i + 1, i + Len(pat)) = pat

\* format!("<kw> {}", v)
Format(kw, v) == kw \o SP \o v

KwConst == <<"c", "o", "n", "s", "t">>
KwStruct == <<"s", "t", "r", "u", "c", "t">>
KwEnum == <<"e", "n", "u", "m">>
KwFor == <<"f", "o", "r">>

\* one step of the fold of exclude_definition_line: the closure's body
MatchesAnyKind(line, v) ==
    \/ Contains(line, Format(KwConst, v))
    \/ Contains(line, Format(KwStruct, v))
    \/ Contains(line, Format(KwEnum, v))
    \/ Contains(line, Format(KwFor, v))

RECURSIVE Fold(_, _, _)
Fold(acc, line, defs) ==
    IF defs = <<>> THEN acc
    ELSE Fold(acc \/ MatchesAnyKind(line, Head(defs)), line, Tail(defs))

\* a fold whose closure forgets `acc ||`: only the last name decides
RECURSIVE FoldLast(_, _, _)
FoldLast(acc, line, defs) ==
    IF defs = <<>> THEN acc
    ELSE FoldLast(MatchesAnyKind(line, Head(defs)), line, Tail(defs))

exclude_definition_line_last(line, defs) == FoldLast(FALSE, line, defs)

exclude_definition_line(line, defs) == Fold(FALSE, line, defs)

-----------------------------------------------------------------------------
(* The module `spec`: declarations, the parser's verdict, the symbol table *)
(* and the text of the emitted fragments.                                  *)

None == <<"None">>
Some(v) == <<"Some", v>>

\* Declaration: d is "const" | "typespec" | "typesyn"; a typespec has a kind
\* ("struct" | "enum" | "union") and, for enum and union, its case labels;
\* emit tells what Emit / Emitpack answer for it: "ok", "nocodec" (pack and unpack
\* answer Ok(None)), or the one of define, pack, unpack that answers Err.
Decl(d, name, kind, labels, emit) ==
    [d |-> d, name |-> name, kind |-> kind, labels |-> labels, emit |-> emit]

DeclPool ==
    { Decl("typesyn", Baz, "syn", <<>>, "ok"),
      Decl("typespec", Foo, "struct", <<>>, "ok"),
      Decl("typespec", FooBar, "enum", <<ONE>>, "ok"),
      Decl("typespec", Sel, "union", <<ONE>>, "ok"),
      Decl("typespec", Opq, "struct", <<>>, "nocodec"),
      Decl("typespec", Bad, "struct", <<>>, "baddefine"),
      Decl("typespec", Bad, "struct", <<>>, "badpack"),
      Decl("typespec", Bad, "struct", <<>>, "badunpack"),
      Decl("const", Bad, "const", <<>>, "baddefine"),
      Decl("const", NName, "const", <<>>, "ok") }

\* declaration lists of at most MaxDefs declarations with distinct names
DeclLists ==
    { s \in UNION { [1..n -> DeclPool] : n \in 0..MaxDefs } :
        \A i, j \in 1..Len(s) : i # j => s[i].name # s[j].name }

\* a specification text: one that parses into its declarations, or a malformed one
Malformed == [wf |-> FALSE, defns |-> <<>>]
Sources == { [wf |-> TRUE, defns |-> s] : s \in DeclLists } \cup { Malformed }

\* spec::specification(&source)
specification(src) ==
    IF src.wf THEN [ok |-> TRUE, defns |-> src.defns] ELSE [ok |-> FALSE, defns |-> <<>>]

NoSymtab == [built |-> FALSE, consts |-> <<>>, typespecs |-> <<>>, typesyns |-> <<>>]

RECURSIVE LabelConsts(_, _)
LabelConsts(owner, labels) ==
    IF labels = <<>> THEN <<>>
    ELSE <<[name |-> Head(labels), kind |-> "const", scope |-> Some(owner), emit |-> "ok"]>>
         \o LabelConsts(owner, Tail(labels))

RECURSIVE ConstsOf(_)
ConstsOf(defns) ==
    IF defns = <<>> THEN <<>>
    ELSE LET d == Head(defns) IN
         (CASE d.d = "const" -> <<[name |-> d.name, kind |-> "const", scope |-> None, emit |-> d.emit]>>
            [] d.d = "typespec" -> LabelConsts(d.name, d.labels)
            [] OTHER -> <<>>)
         \o ConstsOf(Tail(defns))

IsTypespec(d) == d.d = "typespec"
IsTypesyn(d) == d.d = "typesyn"

\* Symtab::new(&defns)
SymtabNew(defns) ==
    [built |-> TRUE,
     consts |-> ConstsOf(defns),
     typespecs |-> SelectSeq(defns, IsTypespec),
     typesyns |-> SelectSeq(defns, IsTypesyn)]

KwType == <<"t", "y", "p", "e">>
ImplPack == <<"i", "m", "p", "l", " ", "P", "a", "c", "k">>
ImplUnpack == <<"i", "m", "p", "l", " ", "U", "n", "p", "a", "c", "k">>
Brace == <<" ", "{">>

\* the keyword a type's structural definition starts with: a union is a Rust enum
DefKw(kind) == IF kind = "struct" THEN KwStruct ELSE KwEnum

\* the text of a fragment (TokenStream::to_string)
Text(f) ==
    CASE f.group = "const" -> Format(KwConst, f.name) \o Brace
      [] f.group = "typespec" -> Format(DefKw(f.kind), f.name) \o Brace
      [] f.group = "typesyn" -> Format(KwType, f.name) \o Brace
      [] f.group = "pack" -> ImplPack \o SP \o Format(KwFor, f.name) \o Brace
      [] f.group = "unpack" -> ImplUnpack \o SP \o Format(KwFor, f.name) \o Brace

Frag(group, name, kind) == [group |-> group, name |-> name, kind |-> kind]

\* Emit::define, Emitpack::pack, Emitpack::unpack: Result<Option<fragment>>
OkSome(f) == [tag |-> "some", frag |-> f]
OkNone == [tag |-> "none", frag |-> Frag("none", <<>>, "none")]
Err == [tag |-> "err", frag |-> Frag("none", <<>>, "none")]

define(group, c) ==
    IF c.emit = "baddefine" THEN Err ELSE OkSome(Frag(group, c.name, c.kind))

pack(c) ==
    CASE c.emit = "badpack" -> Err
      [] c.emit = "nocodec" -> OkNone
      [] OTHER -> OkSome(Frag("pack", c.name, c.kind))

unpack(c) ==
    CASE c.emit = "badunpack" -> Err
      [] c.emit = "nocodec" -> OkNone
      [] OTHER -> OkSome(Frag("unpack", c.name, c.kind))

-----------------------------------------------------------------------------
(* lib.rs: generate and generate_pretty                                    *)

\* result_option: Ok(None) is dropped by filter_map, Ok(Some) and Err are kept
result_option(resopt) ==
    CASE resopt.tag = "none" -> [keep |-> FALSE, r |-> resopt]
      [] resopt.tag = "some" -> [keep |-> TRUE, r |-> resopt]
      [] OTHER -> [keep |-> TRUE, r |-> resopt]

\* a filter that lets every constant through, whatever its scope
IsAnyLevel(c) == c.scope = c.scope

\* |(c, &(v, ref scope))| if scope.is_none() { Some(Const) } else { None }
IsFileLevel(c) == c.scope = None

\* generate_pretty's filter_exlude: !exclude_defs.contains(&name)
filter_exlude(defs, name) == \A i \in 1..Len(defs) : defs[i] # name

\* what one of the five iterators ranges over: generate_pretty filters by name first
Kept(m, defs, s) ==
    IF m = "pretty" THEN SelectSeq(s, LAMBDA c : filter_exlude(defs, c.name)) ELSE s

Tagged(group, s) == [i \in 1..Len(s) |-> [group |-> group, c |-> s[i]]]

consts(x, m, defs) == Tagged("const", SelectSeq(Kept(m, defs, x.consts), IsFileLevel))
typespecs(x, m, defs) == Tagged("typespec", Kept(m, defs, x.typespecs))
typesyns(x, m, defs) == Tagged("typesyn", Kept(m, defs, x.typesyns))
packers(x, m, defs) == Tagged("pack", Kept(m, defs, x.typespecs))
unpackers(x, m, defs) == Tagged("unpack", Kept(m, defs, x.typespecs))

\* a chain that puts the encoders before the type synonyms
ChainPackersEarly(a, b, c, d, e) == a \o b \o d \o c \o e

\* consts.chain(typespecs).chain(typesyns).chain(packers).chain(unpackers)
Chain(a, b, c, d, e) == a \o b \o c \o d \o e

Items(x, m, defs) ==
    Chain(consts(x, m, defs), typespecs(x, m, defs), typesyns(x, m, defs),
          packers(x, m, defs), unpackers(x, m, defs))

\* what the chained iterator yields for one item: the closure of its group
Eval(it) ==
    CASE it.group = "pack" -> result_option(pack(it.c))
      [] it.group = "unpack" -> result_option(unpack(it.c))
      [] OTHER -> [keep |-> TRUE, r |-> define(it.group, it.c)]

HeaderPre == <<"\n", "/", "/", " ", "G", "E", "N", "E", "R", "A", "T", "E", "D", " ", "C", "O", "D", "E", "\n", "/", "/", "\n", "/", "/", " ", "G", "e", "n", "e", "r", "a", "t", "e", "d", " ", "f", "r", "o", "m", " ">>
HeaderPost == <<" ", "b", "y", " ", "x", "d", "r", "g", "e", "n", ".", "\n", "/", "/", "\n", "/", "/", " ", "D", "O", " ", "N", "O", "T", " ", "E", "D", "I", "T", "\n">>

\* writeln!(output, r#"...Generated from {} by xdrgen...."#, infile)
HeaderText(inf) == HeaderPre \o inf \o HeaderPost \o NL

\* writeln!(output, "{}\n", line)
BlockText(line) == line \o NL \o NL

\* one write to `output`: the stream takes the data, or fails and takes nothing;
\* a stream that has failed keeps failing
Write(data) ==
    \/ /\ ~broken
       /\ output' = output \o data
       /\ UNCHANGED <<broken, writeErr>>
    \/ /\ output' = output
       /\ broken' = TRUE
       /\ writeErr' = TRUE

AX == <<"a", ".", "x">>
ExcludeLists == { <<>>, <<Foo>>, <<Foo, NName>> }
\* the item of generate_pretty's `header`
HeaderItem == Frag("header", <<>>, "none")

CompIdle == /\ fs = <<>>
            /\ run = <<>>
GenIdle == /\ mode = "idle"
           /\ infile = <<>>
           /\ source = Malformed
           /\ exclude_defs = <<>>
           /\ pc = "idle"
           /\ xdr = NoSymtab
           /\ res = <<>>
           /\ idx = 1
           /\ output = <<>>
           /\ written = <<>>
           /\ broken = FALSE
           /\ writeErr = FALSE
           /\ ret = "none"
           /\ pretty = <<>>
CodecIdle == /\ foo = <<>>
             /\ buf = <<>>
             /\ cur = <<>>
             /\ foo2 = <<>>
             /\ mpc = "idle"

Init ==
    /\ mode \in {"generate", "pretty"}
    /\ infile = AX
    /\ source \in Sources
    /\ exclude_defs \in ExcludeLists
    /\ pc = "read"
    /\ xdr = NoSymtab
    /\ res = <<>>
    /\ idx = 1
    /\ output = <<>>
    /\ written = <<>>
    /\ broken = FALSE
    /\ writeErr = FALSE
    /\ ret = "none"
    /\ pretty = <<>>
    /\ CompIdle
    /\ CodecIdle

Fail == /\ ret' = "err"
        /\ pc' = "done"

\* a run that writes the header before it has read anything
ReadInputHeaderFirst ==
    /\ pc = "read"
    /\ mode = "generate"
    /\ output' = output \o HeaderText(infile)
    /\ \/ pc' = "parse" /\ ret' = ret
       \/ Fail
    /\ UNCHANGED <<mode, infile, source, exclude_defs, xdr, res, idx,
                   written, broken, writeErr, pretty>>
    /\ UNCHANGED <<compVars, codecVars>>

\* input.read_to_string(&mut source)?
ReadInput ==
    /\ pc = "read"
    /\ mode = "generate"
    /\ \/ pc' = "parse" /\ ret' = ret
       \/ Fail
    /\ UNCHANGED <<mode, infile, source, exclude_defs, xdr, res, idx, output,
                   written, broken, writeErr, pretty>>
    /\ UNCHANGED <<compVars, codecVars>>

\* let mut file = syn::parse_file(header)?
ParseHeader ==
    /\ pc = "read"
    /\ mode = "pretty"
    /\ \/ pc' = "parse" /\ ret' = ret
       \/ Fail
    /\ UNCHANGED <<mode, infile, source, exclude_defs, xdr, res, idx, output,
                   written, broken, writeErr, pretty>>
    /\ UNCHANGED <<compVars, codecVars>>

\* match spec::specification(&source) { Ok(defns) => Symtab::new(&defns), Err(e) => return Err }
Parse ==
    /\ pc = "parse"
    /\ LET p == specification(source) IN
         IF p.ok
         THEN /\ xdr' = SymtabNew(p.defns)
              /\ pc' = "emit"
              /\ ret' = ret
         ELSE /\ Fail
              /\ xdr' = xdr
    /\ UNCHANGED <<mode, infile, source, exclude_defs, res, idx, output,
                   written, broken, writeErr, pretty>>
    /\ UNCHANGED <<compVars, codecVars>>

\* an emission step that drops the symbol table's type synonyms as it goes
EmitOkDrain ==
    /\ pc = "emit"
    /\ idx <= Len(Items(xdr, mode, exclude_defs))
    /\ LET e == Eval(Items(xdr, mode, exclude_defs)[idx]) IN
         /\ e.r.tag # "err"
         /\ res' = IF e.keep THEN Append(res, e.r.frag) ELSE res
    /\ idx' = idx + 1
    /\ xdr' = [xdr EXCEPT !.typesyns = <<>>]
    /\ UNCHANGED <<mode, infile, source, exclude_defs, pc, output,
                   written, broken, writeErr, ret, pretty>>
    /\ UNCHANGED <<compVars, codecVars>>

\* collect pulls one item that is Ok: the fragment, if any, joins the result
EmitOk ==
    /\ pc = "emit"
    /\ idx <= Len(Items(xdr, mode, exclude_defs))
    /\ LET e == Eval(Items(xdr, mode, exclude_defs)[idx]) IN
         /\ e.r.tag # "err"
         /\ res' = IF e.keep THEN Append(res, e.r.frag) ELSE res
    /\ idx' = idx + 1
    /\ UNCHANGED <<mode, infile, source, exclude_defs, pc, xdr, output,
                   written, broken, writeErr, ret, pretty>>
    /\ UNCHANGED <<compVars, codecVars>>

\* collect pulls an item that is Err: `?` returns it, nothing later is evaluated
EmitErr ==
    /\ pc = "emit"
    /\ idx <= Len(Items(xdr, mode, exclude_defs))
    /\ Eval(Items(xdr, mode, exclude_defs)[idx]).r.tag = "err"
    /\ Fail
    /\ UNCHANGED <<mode, infile, source, exclude_defs, xdr, res, idx, output,
                   written, broken, writeErr, pretty>>
    /\ UNCHANGED <<compVars, codecVars>>

\* the chained iterator is exhausted: collect returns Ok(res)
Collected ==
    /\ pc = "emit"
    /\ idx > Len(Items(xdr, mode, exclude_defs))
    /\ pc' = IF mode = "generate" THEN "header" ELSE "unparse"
    /\ idx' = 1
    /\ UNCHANGED <<mode, infile, source, exclude_defs, xdr, res, output,
                   written, broken, writeErr, ret, pretty>>
    /\ UNCHANGED <<compVars, codecVars>>

\* let _ = writeln!(output, header, infile)
WriteHeader ==
    /\ pc = "header"
    /\ Write(HeaderText(infile))
    /\ pc' = "write"
    /\ UNCHANGED <<mode, infile, source, exclude_defs, xdr, res, idx,
                   written, ret, pretty>>
    /\ UNCHANGED <<compVars, codecVars>>

\* one turn of `for it in res`: a line that is not excluded is written
WriteFragment ==
    /\ pc = "write"
    /\ idx <= Len(res)
    /\ LET line == Text(res[idx]) IN
         IF ~exclude_definition_line(line, exclude_defs)
         THEN /\ Write(BlockText(line))
              /\ written' = Append(written, res[idx])
         ELSE UNCHANGED <<output, broken, writeErr, written>>
    /\ idx' = idx + 1
    /\ UNCHANGED <<mode, infile, source, exclude_defs, pc, xdr, res, ret, pretty>>
    /\ UNCHANGED <<compVars, codecVars>>

\* Ok(())
Return ==
    /\ pc = "write"
    /\ idx > Len(res)
    /\ ret' = "ok"
    /\ pc' = "done"
    /\ UNCHANGED <<mode, infile, source, exclude_defs, xdr, res, idx, output,
                   written, broken, writeErr, pretty>>
    /\ UNCHANGED <<compVars, codecVars>>

\* let body = syn::parse2(stream)?; file.items.append(body.items); Ok(unparse(&file))
Unparse ==
    /\ pc = "unparse"
    /\ \/ /\ pretty' = <<HeaderItem>> \o res
          /\ ret' = "ok"
          /\ pc' = "done"
       \/ /\ Fail
          /\ pretty' = pretty
    /\ UNCHANGED <<mode, infile, source, exclude_defs, xdr, res, idx, output,
                   written, broken, writeErr>>
    /\ UNCHANGED <<compVars, codecVars>>

Next ==
    \/ ReadInput
    \/ ParseHeader
    \/ Parse
    \/ EmitOk
    \/ EmitErr
    \/ Collected
    \/ WriteHeader
    \/ WriteFragment
    \/ Return
    \/ Unparse

Spec == Init /\ [][Next]_vars

-----------------------------------------------------------------------------
(* The whole of a run as functions of its inputs                           *)

\* collect::<Result<Vec<_>>>(): the fragments of the items before the first Err
RECURSIVE CollectAll(_)
CollectAll(items) ==
    IF items = <<>> THEN [ok |-> TRUE, frags |-> <<>>]
    ELSE LET e == Eval(Head(items)) IN
         IF e.r.tag = "err" THEN [ok |-> FALSE, frags |-> <<>>]
         ELSE LET rest == CollectAll(Tail(items)) IN
              [ok |-> rest.ok,
               frags |-> IF ~rest.ok THEN <<>>
                         ELSE IF e.keep THEN <<e.r.frag>> \o rest.frags
                         ELSE rest.frags]

\* the fragments of `frags` the loop `for it in res` writes under `defs`
Retained(frags, defs) ==
    SelectSeq(frags, LAMBDA f : ~exclude_definition_line(Text(f), defs))

RECURSIVE Blocks(_)
Blocks(frags) ==
    IF frags = <<>> THEN <<>> ELSE BlockText(Text(Head(frags))) \o Blocks(Tail(frags))

-----------------------------------------------------------------------------
(* Properties of generate and generate_pretty                              *)

Groups == <<"const", "typespec", "typesyn", "pack", "unpack">>
GroupRank(g) == CHOOSE k \in 1..Len(Groups) : Groups[k] = g
InGroupOrder(s) ==
    \A i, j \in 1..Len(s) : i < j => GroupRank(s[i].group) <= GroupRank(s[j].group)

RECURSIVE IsSubseq(_, _)
IsSubseq(a, b) ==
    IF a = <<>> THEN TRUE
    ELSE IF b = <<>> THEN FALSE
    ELSE IF Head(a) = Head(b) THEN IsSubseq(Tail(a), Tail(b))
    ELSE IsSubseq(a, Tail(b))

NoRepeat(s) == \A i, j \in 1..Len(s) : i # j => s[i] # s[j]
Names(s) == [i \in 1..Len(s) |-> s[i].name]
OfGroup(s, g) == SelectSeq(s, LAMBDA f : f.group = g)
NamedIn(defs, name) == \E k \in 1..Len(defs) : defs[k] = name
Finished == pc = "done" /\ ret = "ok"

\* C1: the fragments a run collects, the blocks generate writes and the items
\* generate_pretty returns after the header's are in the order constants, type
\* definitions, type synonyms, encoders, decoders: none of a later group
\* precedes one of an earlier group.
C1_EmissionOrder ==
    /\ InGroupOrder(res)
    /\ InGroupOrder(written)
    /\ (pretty # <<>> => Tail(pretty) = res /\ InGroupOrder(Tail(pretty)))

C1_Witness ==
    /\ Finished
    /\ mode = "generate"
    /\ \A k \in 1..Len(Groups) : OfGroup(written, Groups[k]) # <<>>
    /\ source.defns[1].d = "typesyn"

\* C2: a fragment is dropped only if its definition's name is one of the excluded
\* names: excluding Foo does not drop a block of FooBar.
C2_ExcludesOnlyNamed ==
    (Finished /\ mode = "generate") =>
        \A i \in 1..Len(res) :
            ~NamedIn(exclude_defs, res[i].name) => \E j \in 1..Len(written) : written[j] = res[i]

\* C3: a run of generate that returns an error has written nothing, and whatever
\* the output holds was written after every item of the five groups was collected
\* without error.
C3_AllOrNothing ==
    /\ (ret = "err" /\ mode = "generate") => output = <<>> /\ written = <<>>
    /\ (output # <<>> \/ written # <<>>) =>
          /\ xdr.built
          /\ CollectAll(Items(xdr, mode, exclude_defs)).ok
          /\ res = CollectAll(Items(xdr, mode, exclude_defs)).frags

C3_Witness ==
    /\ mode = "generate"
    /\ ret = "err"
    /\ Len(res) >= 2

\* C4: a run of generate in which a write to the output failed returns an error.
C4_WriteFailureFails ==
    (pc = "done" /\ writeErr) => ret = "err"

\* C6: after a run of generate that returned Ok the output holds the header, once
\* and first, then the block of every retained fragment followed by a blank
\* line, and nothing else.
C6_OutputStructure ==
    (Finished /\ mode = "generate") =>
        output = HeaderText(infile) \o Blocks(Retained(res, exclude_defs))

\* C8: the symbol table changes in one step only, the one that builds it from
\* the parsed declarations; no step after that changes it.
C8_SymtabReadOnly ==
    [][xdr' # xdr => (pc = "parse" /\ ~xdr.built /\ specification(source).ok
                       /\ xdr' = SymtabNew(specification(source).defns))]_vars

C8_Witness ==
    /\ Finished
    /\ xdr.built
    /\ \A k \in 1..Len(Groups) : OfGroup(res, Groups[k]) # <<>>

\* C9: once generate has collected its fragments, the constant definitions among
\* them are those of the symbol table's constants of scope None, one each and in
\* the table's order; a case label (scope Some(owner)) has none.
C9_FileLevelConstsOnly ==
    (mode = "generate" /\ (pc \in {"header", "write"} \/ Finished)) =>
        Names(OfGroup(res, "const"))
            = Names(SelectSeq(xdr.consts, LAMBDA c : c.scope = None))

C9_Witness ==
    /\ mode = "generate"
    /\ Finished
    /\ OfGroup(res, "const") # <<>>
    /\ \E i, j \in 1..Len(xdr.consts) :
          /\ i # j
          /\ xdr.consts[i].name = xdr.consts[j].name
          /\ xdr.consts[i].scope # xdr.consts[j].scope

-----------------------------------------------------------------------------
(* lib.rs: compile, and two calls of it running concurrently               *)

Runs == {1, 2}

\* the input files of the file system and what each holds; no run writes them
InA == <<"a", "/", "s", ".", "x">>
InB == <<"b", "/", "s", ".", "x">>
InC == <<"t", "-", "u", ".", "x">>
InD == <<"t", "_", "u", ".", "x">>
InE == <<"e", ".", "x">>
InMissing == <<"n", ".", "x">>
InPaths == {InA, InB, InC, InD, InE, InMissing}
InputExists(path) == path # InMissing
InputFile(path) ==
    CASE path = InA -> [wf |-> TRUE, defns |-> <<Decl("typespec", Foo, "struct", <<>>, "ok")>>]
      [] path = InB -> [wf |-> TRUE, defns |-> <<Decl("const", NName, "const", <<>>, "ok")>>]
      [] path = InC -> [wf |-> TRUE, defns |-> <<Decl("typesyn", Baz, "syn", <<>>, "ok")>>]
      [] path = InD -> [wf |-> TRUE, defns |-> <<>>]
      [] OTHER -> Malformed

\* env::var("OUT_DIR").unwrap_or(String::from("."))
OutDir == <<"o">>

RECURSIVE LastIndexOf(_, _)
LastIndexOf(s, ch) ==
    IF s = <<>> THEN 0
    ELSE IF s[Len(s)] = ch THEN Len(s)
    ELSE LastIndexOf(SubSeq(s, 1, Len(s) - 1), ch)

\* Path::file_name: the last component
file_name(path) == SubSeq(path, LastIndexOf(path, "/") + 1, Len(path))

\* Path::file_stem: the file name up to its last '.', the whole name when it
\* has none or only a leading one
file_stem(path) ==
    LET name == file_name(path)
        dot == LastIndexOf(name, ".")
    IN IF dot <= 1 THEN name ELSE SubSeq(name, 1, dot - 1)

\* str::replace("-", "_")
replace(s) == [i \in 1..Len(s) |-> IF s[i] = "-" THEN "_" ELSE s[i]]

XdrRs == <<"_", "x", "d", "r", ".", "r", "s">>

\* PathBuf::push of a relative component
push(dir, name) == dir \o <<"/">> \o name

\* an output path that does not depend on the input's name
OutPathFixed(path) == push(OutDir, XdrRs)

\* outdir.push(&format!("{}_xdr.rs", outfile))
OutPath(path) == push(OutDir, replace(file_stem(path)) \o XdrRs)

OutPaths == { OutPath(p) : p \in InPaths }

NoFile == [exists |-> FALSE, data |-> <<>>]

\* a write of `chunk` at offset `pos` of a file holding `data`: a gap is zero-filled
WriteAt(data, pos, chunk) ==
    LET gap == IF pos > Len(data) THEN [i \in 1..(pos - Len(data)) |-> "0"] ELSE <<>>
        head == IF pos > Len(data) THEN data ELSE SubSeq(data, 1, pos)
        rest == IF pos + Len(chunk) >= Len(data) THEN <<>>
                ELSE SubSeq(data, pos + Len(chunk) + 1, Len(data))
    IN head \o gap \o chunk \o rest

\* what generate writes for a specification text, chunk by chunk: the header,
\* then one block per retained fragment; nothing when it returns an error
Chunks(inf, src, defs) ==
    LET p == specification(src)
        x == SymtabNew(p.defns)
        c == CollectAll(Items(x, "generate", defs))
        kept == Retained(c.frags, defs)
    IN IF ~p.ok \/ ~c.ok THEN <<>>
       ELSE <<HeaderText(inf)>> \o [i \in 1..Len(kept) |-> BlockText(Text(kept[i]))]

RECURSIVE Flatten(_)
Flatten(chunks) ==
    IF chunks = <<>> THEN <<>> ELSE Head(chunks) \o Flatten(Tail(chunks))

\* the output file of one call of compile running alone on a fresh file system
Alone(path) ==
    IF ~InputExists(path) THEN NoFile
    ELSE [exists |-> TRUE, data |-> Flatten(Chunks(path, InputFile(path), <<>>))]

InitCompile ==
    /\ GenIdle
    /\ CodecIdle
    /\ fs = [p \in OutPaths |-> NoFile]
    /\ run \in [Runs -> { [infile |-> p, pc |-> "open", chunks |-> <<>>, pos |-> 0, ret |-> "none"]
                          : p \in InPaths }]

\* let input = File::open(&infile)?
Open(r) ==
    /\ run[r].pc = "open"
    /\ run' = [run EXCEPT ![r].pc = IF InputExists(run[r].infile) THEN "create" ELSE "done",
                          ![r].ret = IF InputExists(run[r].infile) THEN "none" ELSE "err"]
    /\ fs' = fs

\* let output = File::create(outdir)?: the file is created or truncated, offset 0
Create(r) ==
    /\ run[r].pc = "create"
    /\ fs' = [fs EXCEPT ![OutPath(run[r].infile)] = [exists |-> TRUE, data |-> <<>>]]
    /\ run' = [run EXCEPT ![r].pc = "generate", ![r].pos = 0]

\* generate up to the end of collect: local to the run
Generate(r) ==
    /\ run[r].pc = "generate"
    /\ LET c == Chunks(run[r].infile, InputFile(run[r].infile), <<>>) IN
         run' = [run EXCEPT ![r].chunks = c,
                            ![r].pc = IF c = <<>> THEN "done" ELSE "write",
                            ![r].ret = IF c = <<>> THEN "err" ELSE "none"]
    /\ fs' = fs

\* one writeln! of generate, through the run's own file handle
WriteChunk(r) ==
    /\ run[r].pc = "write"
    /\ run[r].chunks # <<>>
    /\ LET path == OutPath(run[r].infile)
           chunk == Head(run[r].chunks)
       IN /\ fs' = [fs EXCEPT ![path].data = WriteAt(fs[path].data, run[r].pos, chunk)]
          /\ run' = [run EXCEPT ![r].chunks = Tail(run[r].chunks),
                                ![r].pos = run[r].pos + Len(chunk)]

\* Ok(())
ReturnOk(r) ==
    /\ run[r].pc = "write"
    /\ run[r].chunks = <<>>
    /\ run' = [run EXCEPT ![r].pc = "done", ![r].ret = "ok"]
    /\ fs' = fs

NextCompile ==
    \/ \E r \in Runs : Open(r) /\ UNCHANGED <<genVars, codecVars>>
    \/ \E r \in Runs : Create(r) /\ UNCHANGED <<genVars, codecVars>>
    \/ \E r \in Runs : Generate(r) /\ UNCHANGED <<genVars, codecVars>>
    \/ \E r \in Runs : WriteChunk(r) /\ UNCHANGED <<genVars, codecVars>>
    \/ \E r \in Runs : ReturnOk(r) /\ UNCHANGED <<genVars, codecVars>>

SpecCompile == InitCompile /\ [][NextCompile]_vars

AllDone == \A r \in Runs : run[r].pc = "done"

\* C5 as stated: after two concurrent calls of compile on two different input
\* files, each run's output file holds what the run produces alone.
C5_DifferentInputsIndependent ==
    (AllDone /\ run[1].infile # run[2].infile) =>
        \A r \in Runs : fs[OutPath(run[r].infile)] = Alone(run[r].infile)

\* C5 as amended: after two concurrent calls of compile on input files whose file
\* stems differ once '-' is replaced by '_', neither input being an output of
\* the other run, each run's output file holds what the run produces alone.
C5_DifferentStemsIndependent ==
    (/\ AllDone
     /\ replace(file_stem(run[1].infile)) # replace(file_stem(run[2].infile))
     /\ \A r, q \in Runs : run[r].infile # OutPath(run[q].infile)) =>
        \A r \in Runs : fs[OutPath(run[r].infile)] = Alone(run[r].infile)

C5_Witness ==
    /\ AllDone
    /\ replace(file_stem(run[1].infile)) # replace(file_stem(run[2].infile))
    /\ \A r \in Runs : run[r].ret = "ok" /\ Len(fs[OutPath(run[r].infile)].data) > Len(HeaderText(run[r].infile))

-----------------------------------------------------------------------------
(* xdr_codec and the codecs generated for example/src/simple.x             *)
(* Bytes are 0..255.  An i32 is an integer; a u32 is its two 16-bit halves,  *)
(* so that the whole unsigned range is covered.                            *)

MinI32 == -2147483647 - 1
MaxI32 == 2147483647
U32(hi, lo) == [hi |-> hi, lo |-> lo]
\* a length as u32, and back (a length of 2^31 or more exceeds every buffer here)
LenU32(n) == U32(n \div 65536, n % 65536)

\* big-endian, 4 bytes, two's complement
PackI32(v) ==
    <<(v \div 16777216) % 256, (v \div 65536) % 256, (v \div 256) % 256, v % 256>>
PackU32(u) == <<u.hi \div 256, u.hi % 256, u.lo \div 256, u.lo % 256>>

\* zero bytes up to the next multiple of 4
Padding(n) == [i \in 1..((4 - (n % 4)) % 4) |-> 0]

\* opaque<> and string<>: length, payload, padding
PackFlex(bytes) == PackU32(LenU32(Len(bytes))) \o bytes \o Padding(Len(bytes))

\* struct Bar { opaque data<>; }
PackBar(b) == PackFlex(b.data)

RECURSIVE PackBars(_)
PackBars(bs) == IF bs = <<>> THEN <<>> ELSE PackBar(Head(bs)) \o PackBars(Tail(bs))

\* Bar bar<>: length, then the elements
PackBarFlex(bs) == PackU32(LenU32(Len(bs))) \o PackBars(bs)

\* Bar *barish: a boolean, then the referent if present
PackBarOpt(o) ==
    IF o = None THEN PackU32(U32(0, 0)) ELSE PackU32(U32(0, 1)) \o PackBar(o[2])

\* enum Things { A, B, C }
Things == <<"A", "B", "C">>
ThingValue(t) == (CHOOSE k \in 1..Len(Things) : Things[k] = t) - 1
PackThings(t) == PackI32(ThingValue(t))

\* struct Foo: its fields in declaration order
PackFoo(f) ==
    PackI32(f.a) \o PackI32(f.b) \o PackI32(f.c)
    \o PackBarFlex(f.bar)
    \o PackBars(f.bar_pair)
    \o PackBarOpt(f.barish)
    \o PackFlex(f.name)
    \o PackThings(f.thing)
    \o PackU32(f.type_)

\* a decoding step's result: the value and the cursor after it, or an error
Dec(v, c) == [ok |-> TRUE, val |-> <<v>>, cur |-> c]
DecErr(c) == [ok |-> FALSE, val |-> <<>>, cur |-> c]
Val(r) == r.val[1]

\* a cursor that starts past the first word
CursorNewSkip(b) == [data |-> b, pos |-> 4]

\* Cursor::new(buf): at the start of the buffer
CursorNew(b) == [data |-> b, pos |-> 0]

\* read_exact of n bytes
ReadBytes(c, n) ==
    IF c.pos + n > Len(c.data) THEN DecErr(c)
    ELSE Dec(SubSeq(c.data, c.pos + 1, c.pos + n), [c EXCEPT !.pos = c.pos + n])

\* the next decoding step runs on a result that is not an error
Bind(r, K(_)) == IF r.ok THEN K(r) ELSE r

I32OfBytes(b) ==
    (IF b[1] >= 128 THEN b[1] - 256 ELSE b[1]) * 16777216 + b[2] * 65536 + b[3] * 256 + b[4]
U32OfBytes(b) == U32(b[1] * 256 + b[2], b[3] * 256 + b[4])

UnpackI32(c) == Bind(ReadBytes(c, 4), LAMBDA r : Dec(I32OfBytes(Val(r)), r.cur))
UnpackU32(c) == Bind(ReadBytes(c, 4), LAMBDA r : Dec(U32OfBytes(Val(r)), r.cur))

\* the padding after a payload is read and dropped: its content is not checked
SkipPadding(d) ==
    Bind(ReadBytes(d.cur, Len(Padding(Len(Val(d))))), LAMBDA p : Dec(Val(d), p.cur))

\* the payload of the length just read
FlexPayload(l) ==
    IF Val(l).hi >= 32768 THEN DecErr(l.cur)
    ELSE Bind(ReadBytes(l.cur, Val(l).hi * 65536 + Val(l).lo), SkipPadding)

\* length, payload, padding
UnpackFlex(c) == Bind(UnpackU32(c), FlexPayload)

\* String::from_utf8 of the payload: the strings here are ASCII
UnpackString(c) ==
    Bind(UnpackFlex(c),
         LAMBDA r : IF \E i \in 1..Len(Val(r)) : Val(r)[i] >= 128 THEN DecErr(r.cur) ELSE r)

UnpackBar(c) == Bind(UnpackFlex(c), LAMBDA r : Dec([data |-> Val(r)], r.cur))

\* n elements, no length prefix
RECURSIVE UnpackBars(_, _)
UnpackBars(c, n) ==
    IF n = 0 THEN Dec(<<>>, c)
    ELSE Bind(UnpackBar(c),
              LAMBDA h : Bind(UnpackBars(h.cur, n - 1),
                              LAMBDA t : Dec(<<Val(h)>> \o Val(t), t.cur)))

\* length, then that many elements; every element takes 4 bytes or more, so a
\* length beyond a quarter of the buffer runs into its end
UnpackBarFlex(c) ==
    Bind(UnpackU32(c),
         LAMBDA l : IF Val(l).hi > 0 \/ Val(l).lo * 4 > Len(c.data) THEN DecErr(l.cur)
                    ELSE UnpackBars(l.cur, Val(l).lo))

\* a boolean, then the referent if it is 1; nothing more is read if it is 0
UnpackBarOpt(c) ==
    Bind(UnpackU32(c),
         LAMBDA d : IF Val(d) = U32(0, 0) THEN Dec(None, d.cur)
                    ELSE IF Val(d) = U32(0, 1)
                         THEN Bind(UnpackBar(d.cur), LAMBDA b : Dec(Some(Val(b)), b.cur))
                    ELSE DecErr(d.cur))

\* a value that is no declared variant is rejected
UnpackThings(c) ==
    Bind(UnpackI32(c),
         LAMBDA r : IF Val(r) \in 0..(Len(Things) - 1) THEN Dec(Things[Val(r) + 1], r.cur)
                    ELSE DecErr(r.cur))

\* struct Foo: its fields in declaration order
FooFields == <<"a", "b", "c", "bar", "bar_pair", "barish", "name", "thing", "type_">>

\* the decoder of one field of Foo
UnpackField(field, c) ==
    CASE field \in {"a", "b", "c"} -> UnpackI32(c)
      [] field = "bar" -> UnpackBarFlex(c)
      [] field = "bar_pair" -> UnpackBars(c, 2)
      [] field = "barish" -> UnpackBarOpt(c)
      [] field = "name" -> UnpackString(c)
      [] field = "thing" -> UnpackThings(c)
      [] field = "type_" -> UnpackU32(c)

\* the fields of a Foo, in declaration order
FieldsOf(f) == <<f.a, f.b, f.c, f.bar, f.bar_pair, f.barish, f.name, f.thing, f.type_>>

-----------------------------------------------------------------------------
(* example/src/simple.rs: main                                             *)

BarValues == { [data |-> d] : d \in { <<>>, <<1, 2, 3>>, <<255, 0, 128, 7, 9>> } }
I32Values == { 1, -1, MinI32, MaxI32 }
NameValues == { <<>>, <<102, 111, 111, 120>>, <<102, 111>> }
FooValues ==
    [a : I32Values, b : {2}, c : {3},
     bar : UNION { [1..n -> BarValues] : n \in 0..MaxBars },
     bar_pair : { <<p, q>> : p \in {[data |-> <<1, 2, 3>>]}, q \in {[data |-> <<1, 2, 3>>], [data |-> <<>>]} },
     barish : {None, Some([data |-> <<1, 2, 3>>]), Some([data |-> <<>>])},
     name : NameValues,
     thing : { Things[k] : k \in 1..Len(Things) },
     type_ : { U32(0, 123), U32(65535, 65535) }]

InitCodec ==
    /\ GenIdle
    /\ CompIdle
    /\ foo \in FooValues
    /\ buf = <<>>
    /\ cur = CursorNew(<<>>)
    /\ foo2 = <<>>
    /\ mpc = "pack"

\* pack(&foo, &mut buf).unwrap()
Pack ==
    /\ mpc = "pack"
    /\ buf' = buf \o PackFoo(foo)
    /\ mpc' = "cursor"
    /\ UNCHANGED <<foo, cur, foo2>>

\* let mut cur = Cursor::new(buf)
NewCursor ==
    /\ mpc = "cursor"
    /\ cur' = CursorNew(buf)
    /\ mpc' = "unpack"
    /\ UNCHANGED <<foo, buf, foo2>>

\* let foo2 = unpack(&mut cur).unwrap(): one field of Foo is decoded per step,
\* and an error panics
Unpack ==
    /\ mpc = "unpack"
    /\ LET r == UnpackField(FooFields[Len(foo2) + 1], cur) IN
         /\ cur' = r.cur
         /\ foo2' = IF r.ok THEN foo2 \o r.val ELSE foo2
         /\ mpc' = IF ~r.ok THEN "panic"
                   ELSE IF Len(foo2) + 1 = Len(FooFields) THEN "check"
                   ELSE "unpack"
    /\ UNCHANGED <<foo, buf>>

\* assert_eq!(foo, foo2)
CheckEq ==
    /\ mpc = "check"
    /\ mpc' = IF FieldsOf(foo) = foo2 THEN "done" ELSE "panic"
    /\ UNCHANGED <<foo, buf, cur, foo2>>

NextCodec ==
    \/ Pack /\ UNCHANGED <<genVars, compVars>>
    \/ NewCursor /\ UNCHANGED <<genVars, compVars>>
    \/ Unpack /\ UNCHANGED <<genVars, compVars>>
    \/ CheckEq /\ UNCHANGED <<genVars, compVars>>

SpecCodec == InitCodec /\ [][NextCodec]_vars

\* C7: unpacking from the start of the buffer a Foo was packed into yields a value
\* equal to it, and consumes the buffer: main never panics.
C7_RoundTrip ==
    /\ mpc # "panic"
    /\ mpc \in {"check", "done"} => foo2 = FieldsOf(foo) /\ cur.pos = Len(buf)
    /\ mpc # "pack" => Len(buf) % 4 = 0

C7_Witness ==
    /\ mpc = "done"
    /\ foo.a < 0
    /\ foo.bar # <<>>
    /\ foo.barish # None
    /\ Len(foo.name) = 2
    /\ foo.type_.hi = 65535

====
